---------------------------- MODULE Spec2Model ----------------------------
(***************************************************************************)
(* A model of TREC.py: five dict subclasses (Query, ProbabilisticRelevance,*)
(* Relevance, Result, Run), each with read(path) and write(path).          *)
(*                                                                         *)
(* Text is modelled as what it is, a sequence of code points, so that      *)
(* splitting, stripping, joining, number parsing and number formatting are *)
(* computed and a file written by write() is parsed again by read().       *)
(* A Python dict is an association list in insertion order with unique     *)
(* keys; dict equality ignores the order.                                  *)
(***************************************************************************)
EXTENDS Integers, Sequences, FiniteSets, TLC

(***************************************************************************)
(* Bounds of the model.                                                    *)
(***************************************************************************)
\* the number of data lines of an input file
MaxLines == 2
\* the number of direct operations (lookups, assignments, appends) on a table
MaxOps == 2
\* the decimal places a float of the model keeps (a float is a fixed-point
\* integer in units of 10^-FracDigits, or NaN)
FracDigits == 7

(***************************************************************************)
(* Text: sequences of code points.                                         *)
(***************************************************************************)
Ord ==
    ("0" :> 48) @@ ("1" :> 49) @@ ("2" :> 50) @@ ("3" :> 51) @@ ("4" :> 52) @@
    ("5" :> 53) @@ ("6" :> 54) @@ ("7" :> 55) @@ ("8" :> 56) @@ ("9" :> 57) @@
    (" " :> 32) @@ ("-" :> 45) @@ ("." :> 46) @@ (":" :> 58) @@ ("," :> 44) @@
    ("_" :> 95) @@ ("Q" :> 81) @@ ("a" :> 97) @@ ("b" :> 98) @@ ("c" :> 99) @@
    ("d" :> 100) @@ ("i" :> 105) @@ ("m" :> 109) @@ ("n" :> 110) @@
    ("o" :> 111) @@ ("p" :> 112) @@ ("r" :> 114) @@ ("t" :> 116) @@
    ("u" :> 117) @@ ("x" :> 120) @@ ("A" :> 65) @@ ("B" :> 66) @@
    ("\n" :> 10) @@ ("\r" :> 13)

\* the text of a tuple of one-character strings
L(s) == [i \in 1..Len(s) |-> Ord[s[i]]]

\* str.__lt__: code-point lexicographic order
RECURSIVE LexLess(_, _)
LexLess(a, b) ==
    IF b = <<>> THEN FALSE
    ELSE IF a = <<>> THEN TRUE
    ELSE IF Head(a) # Head(b) THEN Head(a) < Head(b)
    ELSE LexLess(Tail(a), Tail(b))

LexLeq(a, b) == a = b \/ LexLess(a, b)

\* the characters \s matches and str.strip() removes
IsSpace(c) == c \in {9, 10, 11, 12, 13, 32}

RECURSIVE LStrip(_)
LStrip(t) == IF t # <<>> /\ IsSpace(Head(t)) THEN LStrip(Tail(t)) ELSE t

RECURSIVE RStrip(_)
RStrip(t) ==
    IF t # <<>> /\ IsSpace(t[Len(t)]) THEN RStrip(SubSeq(t, 1, Len(t) - 1)) ELSE t

Strip(t) == RStrip(LStrip(t))

\* the index of the first c in t, 0 when there is none
RECURSIVE IndexFrom(_, _, _)
IndexFrom(t, c, i) ==
    IF i > Len(t) THEN 0 ELSE IF t[i] = c THEN i ELSE IndexFrom(t, c, i + 1)

\* str.split(sep, 1) for a one-character sep
SplitFirst(t, sep) ==
    LET i == IndexFrom(t, sep, 1)
    IN  IF i = 0 THEN <<t>>
        ELSE <<SubSeq(t, 1, i - 1), SubSeq(t, i + 1, Len(t))>>

\* str.split(sep) for a one-character sep (csv's field splitting, unquoted)
RECURSIVE SplitAll(_, _)
SplitAll(t, sep) ==
    LET i == IndexFrom(t, sep, 1)
    IN  IF i = 0 THEN <<t>>
        ELSE <<SubSeq(t, 1, i - 1)>> \o SplitAll(SubSeq(t, i + 1, Len(t)), sep)

\* the index of the first whitespace (want = TRUE) or non-whitespace
\* (want = FALSE) character of t at or after i, Len(t) + 1 when there is none
RECURSIVE ScanWs(_, _, _)
ScanWs(t, i, want) ==
    IF i > Len(t) THEN i
    ELSE IF IsSpace(t[i]) = want THEN i
    ELSE ScanWs(t, i + 1, want)

\* re.split('\\s+', t, maxsplit)
RECURSIVE ReSplit(_, _)
ReSplit(t, maxsplit) ==
    LET i == ScanWs(t, 1, TRUE)
        j == ScanWs(t, i, FALSE)
    IN  IF maxsplit = 0 \/ i > Len(t) THEN <<t>>
        ELSE <<SubSeq(t, 1, i - 1)>> \o ReSplit(SubSeq(t, j, Len(t)), maxsplit - 1)

\* sep.join(fields)
RECURSIVE Join(_, _)
Join(fields, sep) ==
    IF fields = <<>> THEN <<>>
    ELSE IF Len(fields) = 1 THEN fields[1]
    ELSE fields[1] \o sep \o Join(Tail(fields), sep)

\* the lines a text-mode file yields (universal newlines: \r\n, \r and \n end
\* a line and read as \n; the last line may have no end)
RECURSIVE FileLines(_)
FileLines(f) ==
    IF f = <<>> THEN <<>>
    ELSE IF \A k \in 1..Len(f) : f[k] \notin {10, 13} THEN <<f>>
    ELSE LET e == CHOOSE k \in 1..Len(f) :
                    /\ f[k] \in {10, 13}
                    /\ \A h \in 1..(k - 1) : f[h] \notin {10, 13}
             n == IF f[e] = 13 /\ e < Len(f) /\ f[e + 1] = 10 THEN e + 1 ELSE e
         IN  <<SubSeq(f, 1, e - 1) \o <<10>>>> \o FileLines(SubSeq(f, n + 1, Len(f)))

(***************************************************************************)
(* Numbers and their texts.                                                *)
(***************************************************************************)
IsDigit(c) == c \in 48..57

RECURSIVE Pow10(_)
Pow10(n) == IF n = 0 THEN 1 ELSE 10 * Pow10(n - 1)

\* the decimal digits of n >= 0
RECURSIVE Digits(_)
Digits(n) == IF n < 10 THEN <<48 + n>> ELSE Digits(n \div 10) \o <<48 + (n % 10)>>

\* the value of a digit string
RECURSIVE DigitsValue(_)
DigitsValue(t) ==
    IF t = <<>> THEN 0 ELSE 10 * DigitsValue(SubSeq(t, 1, Len(t) - 1)) + (t[Len(t)] - 48)

AllDigits(t) == t # <<>> /\ \A i \in 1..Len(t) : IsDigit(t[i])

\* str(n) of an int
StrInt(n) == IF n < 0 THEN <<45>> \o Digits(-n) ELSE Digits(n)

\* int(t): [ok, v]; not ok is Python's ValueError
ParseInt(t) ==
    LET s == Strip(t)
        neg == s # <<>> /\ s[1] = 45
        body == IF neg THEN Tail(s) ELSE s
    IN  IF AllDigits(body)
        THEN [ok |-> TRUE, v |-> IF neg THEN -DigitsValue(body) ELSE DigitsValue(body)]
        ELSE [ok |-> FALSE, v |-> 0]

\* a float: NaN, or a fixed-point number of FracDigits decimal places
NaN == [nan |-> TRUE, v |-> 0]
Flt(v) == [nan |-> FALSE, v |-> v]

\* float(t): [ok, f]; accepts [-]nan and [-]digits[.digits]; digits beyond
\* FracDigits places are dropped
ParseFloat(t) ==
    LET s == Strip(t)
        neg == s # <<>> /\ s[1] = 45
        body == IF neg THEN Tail(s) ELSE s
        parts == SplitFirst(body, 46)
        ip == parts[1]
        fp == IF Len(parts) = 2 THEN parts[2] ELSE <<>>
        fpk == SubSeq(fp, 1, IF Len(fp) < FracDigits THEN Len(fp) ELSE FracDigits)
        mag == DigitsValue(ip) * Pow10(FracDigits)
                 + DigitsValue(fpk) * Pow10(FracDigits - Len(fpk))
    IN  IF body = L(<<"n", "a", "n">>) THEN [ok |-> TRUE, f |-> NaN]
        ELSE IF /\ (ip = <<>> \/ AllDigits(ip))
                /\ (fp = <<>> \/ AllDigits(fp))
                /\ (ip # <<>> \/ fp # <<>>)
        THEN [ok |-> TRUE, f |-> Flt(IF neg THEN -mag ELSE mag)]
        ELSE [ok |-> FALSE, f |-> NaN]

\* a digit string without its trailing zeros
RECURSIVE DropZeros(_)
DropZeros(t) ==
    IF t # <<>> /\ t[Len(t)] = 48 THEN DropZeros(SubSeq(t, 1, Len(t) - 1)) ELSE t

\* n >= 0 as exactly w digits
RECURSIVE Padded(_, _)
Padded(n, w) == IF w = 0 THEN <<>> ELSE Padded(n \div 10, w - 1) \o <<48 + (n % 10)>>

\* str(f) of a float in positional notation: 1.0, -2.0, 0.25, nan
ReprFloat(f) ==
    LET mag == IF f.v < 0 THEN -f.v ELSE f.v
        unit == Pow10(FracDigits)
        frac == DropZeros(Padded(mag % unit, FracDigits))
    IN  IF f.nan THEN L(<<"n", "a", "n">>)
        ELSE (IF f.v < 0 THEN <<45>> ELSE <<>>)
             \o Digits(mag \div unit) \o <<46>>
             \o (IF frac = <<>> THEN <<48>> ELSE frac)

(***************************************************************************)
(* dict: an association list <<[k, v], ...>> in insertion order.           *)
(***************************************************************************)
DKeys(d) == [i \in 1..Len(d) |-> d[i].k]

DHas(d, k) == \E i \in 1..Len(d) : d[i].k = k

DIndex(d, k) == CHOOSE i \in 1..Len(d) : d[i].k = k

DGet(d, k) == d[DIndex(d, k)].v

\* d[k] = v: an existing key keeps its place, a new one is added last
DPut(d, k, v) ==
    IF DHas(d, k) THEN [d EXCEPT ![DIndex(d, k)].v = v]
    ELSE Append(d, [k |-> k, v |-> v])

\* sorted(texts): insertion into an ascending sequence
RECURSIVE InsertText(_, _)
InsertText(s, t) ==
    IF s = <<>> THEN <<t>>
    ELSE IF LexLess(t, Head(s)) THEN <<t>> \o s
    ELSE <<Head(s)>> \o InsertText(Tail(s), t)

RECURSIVE SortTexts(_)
SortTexts(s) ==
    IF s = <<>> THEN <<>> ELSE InsertText(SortTexts(SubSeq(s, 1, Len(s) - 1)), s[Len(s)])

\* mutant: list(d.keys()), the keys in insertion order
UnsortedKeys(d) == DKeys(d)

\* sorted(list(d.keys()))
SortedKeys(d) == SortTexts(DKeys(d))

\* the result of a read: the table as the exception (if any) leaves it
Done(t) == [tbl |-> t, err |-> "none"]
Raised(t, e) == [tbl |-> t, err |-> e]

\* a file on disk
NoFile == [exists |-> FALSE, data |-> <<>>]
File(t) == [exists |-> TRUE, data |-> t]

Colon == 58
Space == 32
Comma == 44
LF == 10
Intent0 == <<48>>

(***************************************************************************)
(* Query: id -> text.  A plain dict: it defines no __missing__.            *)
(***************************************************************************)
RECURSIVE QueryReadLines(_, _)
QueryReadLines(tbl, lines) ==
    IF lines = <<>> THEN Done(tbl)
    ELSE LET parts == SplitFirst(Head(lines), Colon)
         IN  IF Len(parts) # 2 THEN Raised(tbl, "ValueError")
             ELSE QueryReadLines(DPut(tbl, parts[1], RStrip(parts[2])), Tail(lines))

QueryRead(tbl, f) == QueryReadLines(tbl, FileLines(f))

RECURSIVE QueryWriteKeys(_, _)
QueryWriteKeys(tbl, keys) ==
    IF keys = <<>> THEN <<>>
    ELSE Join(<<Head(keys), DGet(tbl, Head(keys))>>, <<Colon>>) \o <<LF>>
         \o QueryWriteKeys(tbl, Tail(keys))

QueryWrite(tbl) == QueryWriteKeys(tbl, SortedKeys(tbl))

(***************************************************************************)
(* ProbabilisticRelevance: query -> "0" -> document -> relevance, an int   *)
(* carrying method_id and probability.  A stored value is wrapped          *)
(* ([bare |-> FALSE, val, method_id, probability]) or a bare int           *)
(* ([bare |-> TRUE, val]).                                                 *)
(***************************************************************************)
DefaultRelevance == <<48>>
DefaultMethodId == <<45, 49>>
DefaultProbability == L(<<"n", "a", "n">>)

\* relevance.__new__(relevance='0', method_id='-1', probability='nan') on the
\* texts args (at most three): [ok, r]; not ok is the ValueError of int()
\* or float()
NewRelevance(args) ==
    LET rel == IF Len(args) >= 1 THEN args[1] ELSE DefaultRelevance
        mid == IF Len(args) >= 2 THEN args[2] ELSE DefaultMethodId
        prob == IF Len(args) >= 3 THEN args[3] ELSE DefaultProbability
        i == ParseInt(rel)
        p == ParseFloat(prob)
    IN  [ok |-> i.ok /\ p.ok,
         r |-> [bare |-> FALSE, val |-> i.v, method_id |-> mid, probability |-> p.f]]

\* relevance(n) of a bare int n
WrapRelevance(r) ==
    IF r.bare
    THEN [bare |-> FALSE, val |-> r.val, method_id |-> DefaultMethodId,
          probability |-> ParseFloat(DefaultProbability).f]
    ELSE r

\* self[query_id], with __missing__: the table after the lookup
Vivify(tbl, k, empty) == IF DHas(tbl, k) THEN tbl ELSE Append(tbl, [k |-> k, v |-> empty])

\* self[query_id][intent_id][document_id] = value, through __missing__ and
\* the two defaultdicts
PutNested(tbl, q, i, d, value) ==
    LET t1 == Vivify(tbl, q, <<>>)
        byIntent == Vivify(DGet(t1, q), i, <<>>)
    IN  DPut(t1, q, DPut(byIntent, i, DPut(DGet(byIntent, i), d, value)))

RECURSIVE PRReadLines(_, _)
PRReadLines(tbl, lines) ==
    IF lines = <<>> THEN Done(tbl)
    ELSE LET l == ReSplit(Strip(Head(lines)), 4)
             n == NewRelevance(SubSeq(l, 3, Len(l)))
         IN  IF Len(l) < 2 THEN Raised(tbl, "ValueError")
             ELSE IF ~n.ok THEN Raised(tbl, "ValueError")
             ELSE PRReadLines(PutNested(tbl, l[1], Intent0, l[2], n.r), Tail(lines))

PRRead(tbl, f) == PRReadLines(tbl, FileLines(f))

PRLine(q, d, r) ==
    Join(<<q, d, StrInt(r.val), r.method_id, ReprFloat(r.probability)>>, <<Space>>)
    \o <<LF>>

RECURSIVE PRWriteDocs(_, _, _)
PRWriteDocs(q, fromD, docs) ==
    IF docs = <<>> THEN <<>>
    ELSE PRLine(q, Head(docs), WrapRelevance(DGet(fromD, Head(docs))))
         \o PRWriteDocs(q, fromD, Tail(docs))

\* self[query_id]['0'] creates the "0" entry of a query that has none
PRTouch(tbl, q) == DPut(tbl, q, Vivify(DGet(tbl, q), Intent0, <<>>))

RECURSIVE PRWriteQueries(_, _)
PRWriteQueries(tbl, qs) ==
    IF qs = <<>> THEN [tbl |-> tbl, data |-> <<>>]
    ELSE LET t1 == PRTouch(tbl, Head(qs))
             fromD == DGet(DGet(t1, Head(qs)), Intent0)
             rest == PRWriteQueries(t1, Tail(qs))
         IN  [tbl |-> rest.tbl,
              data |-> PRWriteDocs(Head(qs), fromD, SortedKeys(fromD)) \o rest.data]

\* write: the file's text and the table as the lookups leave it
PRWrite(tbl) == PRWriteQueries(tbl, SortedKeys(tbl))

(***************************************************************************)
(* Relevance: query -> intent -> document -> int.                          *)
(***************************************************************************)
RECURSIVE RelReadLines(_, _)
RelReadLines(tbl, lines) ==
    IF lines = <<>> THEN Done(tbl)
    ELSE LET l == ReSplit(Strip(Head(lines)), 3)
             r == ParseInt(l[4])
         IN  IF Len(l) # 4 THEN Raised(tbl, "ValueError")
             ELSE IF ~r.ok THEN Raised(tbl, "ValueError")
             ELSE RelReadLines(PutNested(tbl, l[1], l[2], l[3], r.v), Tail(lines))

RelRead(tbl, f) == RelReadLines(tbl, FileLines(f))

RECURSIVE RelWriteDocs(_, _, _, _)
RelWriteDocs(q, i, fromD, docs) ==
    IF docs = <<>> THEN <<>>
    ELSE Join(<<q, i, Head(docs), StrInt(DGet(fromD, Head(docs)))>>, <<Space>>) \o <<LF>>
         \o RelWriteDocs(q, i, fromD, Tail(docs))

RECURSIVE RelWriteIntents(_, _, _)
RelWriteIntents(q, fromI, intents) ==
    IF intents = <<>> THEN <<>>
    ELSE LET fromD == DGet(fromI, Head(intents))
         IN  RelWriteDocs(q, Head(intents), fromD, SortedKeys(fromD))
             \o RelWriteIntents(q, fromI, Tail(intents))

RECURSIVE RelWriteQueries(_, _)
RelWriteQueries(tbl, qs) ==
    IF qs = <<>> THEN <<>>
    ELSE LET fromI == DGet(tbl, Head(qs))
         IN  RelWriteIntents(Head(qs), fromI, SortedKeys(fromI))
             \o RelWriteQueries(tbl, Tail(qs))

RelWrite(tbl) == RelWriteQueries(tbl, SortedKeys(tbl))

(***************************************************************************)
(* Result: query_id -> measure -> float or None.  query_id is a str        *)
(* carrying run_id: it hashes and compares as its text.  An entry is       *)
(* [k |-> the key's text, key |-> [bare, run_id], v |-> the measures];     *)
(* a measure's value is [none, v].                                         *)
(***************************************************************************)
DefaultRunId == <<95>>
TopicField == L(<<"t", "o", "p", "i", "c">>)
RunIdField == L(<<"r", "u", "n", "i", "d">>)
MinusNan == L(<<"-", "n", "a", "n">>)
CRLF == <<13, 10>>

None == [none |-> TRUE, v |-> 0]
Num(v) == [none |-> FALSE, v |-> v]

\* query_id(query_id=topic, run_id=runid): the key object
QueryIdKey(runId) == [bare |-> FALSE, run_id |-> runId]
BareKey == [bare |-> TRUE]

\* mutant: a lookup replaces the key object of a present key
ResultVivifyRekey(tbl, topic, key) ==
    IF DHas(tbl, topic) THEN [tbl EXCEPT ![DIndex(tbl, topic)].key = key]
    ELSE Append(tbl, [k |-> topic, key |-> key, v |-> <<>>])

\* self[query_id] with __missing__: an absent key is stored as the key
\* object of the lookup; a present one keeps the key object it was stored with
ResultVivify(tbl, topic, key) ==
    IF DHas(tbl, topic) THEN tbl ELSE Append(tbl, [k |-> topic, key |-> key, v |-> <<>>])

\* the index of name in a header, 0 when absent
FieldIndex(header, name) ==
    IF \E i \in 1..Len(header) : header[i] = name
    THEN CHOOSE i \in 1..Len(header) : header[i] = name
    ELSE 0

\* the measures of one row, in header order, set one by one until float() fails
RECURSIVE ResultSetMeasures(_, _, _, _)
ResultSetMeasures(tbl, topic, header, row) ==
    IF header = <<>> THEN Done(tbl)
    ELSE IF Head(header) \in {TopicField, RunIdField}
    THEN ResultSetMeasures(tbl, topic, Tail(header), Tail(row))
    ELSE LET p == ParseFloat(Head(row))
             value == IF p.f.nan THEN None ELSE Num(p.f.v)
         IN  IF ~p.ok THEN Raised(tbl, "ValueError")
             ELSE ResultSetMeasures(
                      DPut(tbl, topic, DPut(DGet(tbl, topic), Head(header), value)),
                      topic, Tail(header), Tail(row))

\* csv.reader's row of a line: the line without its end, split at the commas
CsvRow(line) ==
    SplitAll(IF line # <<>> /\ line[Len(line)] = LF
             THEN SubSeq(line, 1, Len(line) - 1) ELSE line, Comma)

RECURSIVE ResultReadRows(_, _, _)
ResultReadRows(tbl, header, lines) ==
    IF lines = <<>> THEN Done(tbl)
    ELSE IF Head(lines) = <<LF>> THEN ResultReadRows(tbl, header, Tail(lines))
    ELSE LET row == CsvRow(Head(lines))
             ti == FieldIndex(header, TopicField)
             ri == FieldIndex(header, RunIdField)
         IN  IF Len(row) # Len(header) THEN Raised(tbl, "TypeError")
             ELSE IF ti = 0 \/ ri = 0 THEN Raised(tbl, "KeyError")
             ELSE LET t1 == ResultVivify(tbl, row[ti], QueryIdKey(RStrip(row[ri])))
                      r == ResultSetMeasures(t1, row[ti], header, row)
                  IN  IF r.err # "none" THEN r
                      ELSE ResultReadRows(r.tbl, header, Tail(lines))

\* csv.DictReader: the first row names the fields.  Rows of another length
\* than the header are not among the inputs of this model.
ResultRead(tbl, f) ==
    LET lines == FileLines(f)
    IN  IF lines = <<>> THEN Done(tbl)
        ELSE ResultReadRows(tbl, CsvRow(Head(lines)), Tail(lines))

\* mutant: '{0:.1f}'.format(value), one decimal place
Format1(v) ==
    LET mag == IF v < 0 THEN -v ELSE v
        d == Pow10(FracDigits - 1)
        q == mag \div d
        r == mag % d
        up == 2 * r > d \/ (2 * r = d /\ q % 2 = 1)
        n == IF up THEN q + 1 ELSE q
    IN  (IF v < 0 THEN <<45>> ELSE <<>>) \o Digits(n \div 10) \o <<46>> \o Padded(n % 10, 1)

\* '{0:.6f}'.format(value) of a float that is not NaN: the nearest number of
\* six decimal places.  (A value exactly half way between two of them is
\* decided in Python by the binary double nearest to it; here it goes to the
\* even one, and no input of the model is half way.)
Format6(v) ==
    LET mag == IF v < 0 THEN -v ELSE v
        d == Pow10(FracDigits - 6)
        q == mag \div d
        r == mag % d
        up == 2 * r > d \/ (2 * r = d /\ q % 2 = 1)
        n == IF up THEN q + 1 ELSE q
    IN  (IF v < 0 THEN <<45>> ELSE <<>>)
        \o Digits(n \div 1000000) \o <<46>> \o Padded(n % 1000000, 6)

\* the text of one measure value
ResultValueText(value) == IF value.none THEN MinusNan ELSE Format6(value.v)

\* fieldnames: runid, topic and the measure names of the first record
ResultFieldNames(tbl) == <<RunIdField, TopicField>> \o DKeys(tbl[1].v)

\* the run id written for a key: a bare str is wrapped by query_id(query_id)
ResultRunId(key) == IF key.bare THEN DefaultRunId ELSE key.run_id

\* DictWriter.writerow: the row's text, fields in fieldnames order, '' for a
\* field the record lacks
ResultRowText(e, fieldnames) ==
    Join([i \in 1..Len(fieldnames) |->
            IF fieldnames[i] = RunIdField THEN ResultRunId(e.key)
            ELSE IF fieldnames[i] = TopicField THEN e.k
            ELSE IF DHas(e.v, fieldnames[i])
                 THEN ResultValueText(DGet(e.v, fieldnames[i]))
            ELSE <<>>],
         <<Comma>>) \o CRLF

\* DictWriter raises ValueError on a record with a field outside fieldnames
ResultRowFits(e, fieldnames) ==
    \A i \in 1..Len(e.v) : \E j \in 1..Len(fieldnames) : fieldnames[j] = e.v[i].k

RECURSIVE ResultWriteRows(_, _, _)
ResultWriteRows(tbl, fieldnames, keys) ==
    IF keys = <<>> THEN [data |-> <<>>, err |-> "none"]
    ELSE LET e == tbl[DIndex(tbl, Head(keys))]
             rest == ResultWriteRows(tbl, fieldnames, Tail(keys))
         IN  IF ~ResultRowFits(e, fieldnames) THEN [data |-> <<>>, err |-> "ValueError"]
             ELSE [data |-> ResultRowText(e, fieldnames) \o rest.data, err |-> rest.err]

\* mutant: the file is opened before the field names are computed
ResultWriteOpensFirst(tbl) ==
    IF tbl = <<>> THEN [file |-> File(<<>>), err |-> "IndexError"]
    ELSE LET fieldnames == ResultFieldNames(tbl)
             rows == ResultWriteRows(tbl, fieldnames, SortedKeys(tbl))
         IN  [file |-> File(Join(fieldnames, <<Comma>>) \o CRLF \o rows.data),
              err |-> rows.err]

\* write: [file, err]; on an empty table list(self.keys())[0] raises
\* IndexError before the file is opened
ResultWrite(tbl) ==
    IF tbl = <<>> THEN [file |-> NoFile, err |-> "IndexError"]
    ELSE LET fieldnames == ResultFieldNames(tbl)
             rows == ResultWriteRows(tbl, fieldnames, SortedKeys(tbl))
         IN  [file |-> File(Join(fieldnames, <<Comma>>) \o CRLF \o rows.data),
              err |-> rows.err]

(***************************************************************************)
(* Run: query -> list of document_id, a str carrying score, key and        *)
(* run_id.  A stored document is wrapped ([bare |-> FALSE, id, score, key, *)
(* run_id], score being the text read) or a bare str ([bare |-> TRUE, id]).*)
(***************************************************************************)
DefaultKey == L(<<"Q", "0">>)

\* document_id(document_id, score, key='Q0', run_id='_')
DocumentId(id, score, key, runId) ==
    [bare |-> FALSE, id |-> id, score |-> score, key |-> key, run_id |-> runId]

\* mutant: sorted(pairs, key=lambda p: p[0]), the score alone
PairLessScoreOnly(a, b) == a.neg < b.neg

\* [-float(score), document_id] < [-float(score), document_id]: the lists
\* compare at their first unequal element, the documents as str
PairLess(a, b) ==
    IF a.neg # b.neg THEN a.neg < b.neg ELSE LexLess(a.doc.id, b.doc.id)

\* sorted(pairs): stable
RECURSIVE InsertPair(_, _)
InsertPair(s, x) ==
    IF s = <<>> THEN <<x>>
    ELSE IF PairLess(x, Head(s)) THEN <<x>> \o s
    ELSE <<Head(s)>> \o InsertPair(Tail(s), x)

RECURSIVE SortPairs(_)
SortPairs(s) ==
    IF s = <<>> THEN <<>> ELSE InsertPair(SortPairs(SubSeq(s, 1, Len(s) - 1)), s[Len(s)])

\* query_id_to_pairs after the loop over the lines: [tbl, err], tbl being the
\* defaultdict query -> pairs.  Scores are numbers here: a NaN score is not
\* among the inputs of this model.
RECURSIVE RunCollect(_, _)
RunCollect(pairs, lines) ==
    IF lines = <<>> THEN Done(pairs)
    ELSE LET l == ReSplit(Strip(Head(lines)), 5)
             sc == ParseFloat(l[5])
             p1 == Vivify(pairs, l[1], <<>>)
             pair == [neg |-> -sc.f.v, doc |-> DocumentId(l[3], l[5], l[2], l[6])]
         IN  IF Len(l) # 6 THEN Raised(pairs, "ValueError")
             ELSE IF ~sc.ok THEN Raised(pairs, "ValueError")
             ELSE RunCollect(DPut(p1, l[1], Append(DGet(p1, l[1]), pair)), Tail(lines))

\* the documents of sorted pairs
PairDocs(ps) == [i \in 1..Len(ps) |-> ps[i].doc]

\* the second loop: per query, self[query_id] extended by the sorted documents
RECURSIVE RunStore(_, _)
RunStore(tbl, pairs) ==
    IF pairs = <<>> THEN tbl
    ELSE LET q == Head(pairs).k
             t1 == Vivify(tbl, q, <<>>)
         IN  RunStore(DPut(t1, q, DGet(t1, q) \o PairDocs(SortPairs(Head(pairs).v))),
                      Tail(pairs))

\* read: nothing is stored unless every line was parsed
RunRead(tbl, f) ==
    LET c == RunCollect(<<>>, FileLines(f))
    IN  IF c.err # "none" THEN Raised(tbl, c.err) ELSE Done(RunStore(tbl, c.tbl))

\* rank as a float counter: 1.0, 2.0, ...
RankFloat(rank) == Flt(rank * Pow10(FracDigits))

\* mutant: document_id(document_id, score=rank)
RunWrapPositive(doc, rank) ==
    IF doc.bare
    THEN DocumentId(doc.id, ReprFloat(RankFloat(rank)), DefaultKey, DefaultRunId)
    ELSE doc

\* a bare str is wrapped by document_id(document_id, score=-rank)
RunWrap(doc, rank) ==
    IF doc.bare
    THEN DocumentId(doc.id, ReprFloat(RankFloat(-rank)), DefaultKey, DefaultRunId)
    ELSE doc

\* mutant: rank and score written in each other's place
RunLineRankAsScore(q, doc, rank) ==
    Join(<<q, doc.key, doc.id, doc.score, ReprFloat(RankFloat(rank)), doc.run_id>>,
         <<Space>>) \o <<LF>>

RunLine(q, doc, rank) ==
    Join(<<q, doc.key, doc.id, ReprFloat(RankFloat(rank)), doc.score, doc.run_id>>,
         <<Space>>) \o <<LF>>

\* mutant: rank is never incremented
RECURSIVE RunWriteDocsNoIncr(_, _, _)
RunWriteDocsNoIncr(q, docs, rank) ==
    IF docs = <<>> THEN <<>>
    ELSE RunLine(q, RunWrap(Head(docs), rank), rank)
         \o RunWriteDocsNoIncr(q, Tail(docs), rank)

RECURSIVE RunWriteDocs(_, _, _)
RunWriteDocs(q, docs, rank) ==
    IF docs = <<>> THEN <<>>
    ELSE RunLine(q, RunWrap(Head(docs), rank), rank)
         \o RunWriteDocs(q, Tail(docs), rank + 1)

RECURSIVE RunWriteQueries(_, _)
RunWriteQueries(tbl, qs) ==
    IF qs = <<>> THEN <<>>
    ELSE RunWriteDocs(Head(qs), DGet(tbl, Head(qs)), 1) \o RunWriteQueries(tbl, Tail(qs))

RunWrite(tbl) == RunWriteQueries(tbl, SortedKeys(tbl))

(***************************************************************************)
(* The five classes behind one interface.                                  *)
(***************************************************************************)
Classes == {"Query", "ProbabilisticRelevance", "Relevance", "Result", "Run"}

\* cls.read(path) on a table: [tbl, err]
ClsRead(c, tbl, f) ==
    CASE c = "Query" -> QueryRead(tbl, f)
      [] c = "ProbabilisticRelevance" -> PRRead(tbl, f)
      [] c = "Relevance" -> RelRead(tbl, f)
      [] c = "Result" -> ResultRead(tbl, f)
      [] c = "Run" -> RunRead(tbl, f)

\* cls.write(path): [tbl, file, err]
ClsWrite(c, tbl) ==
    CASE c = "Query" -> [tbl |-> tbl, file |-> File(QueryWrite(tbl)), err |-> "none"]
      [] c = "ProbabilisticRelevance" ->
            [tbl |-> PRWrite(tbl).tbl, file |-> File(PRWrite(tbl).data), err |-> "none"]
      [] c = "Relevance" -> [tbl |-> tbl, file |-> File(RelWrite(tbl)), err |-> "none"]
      [] c = "Result" ->
            [tbl |-> tbl, file |-> ResultWrite(tbl).file, err |-> ResultWrite(tbl).err]
      [] c = "Run" -> [tbl |-> tbl, file |-> File(RunWrite(tbl)), err |-> "none"]

\* dict.__eq__ per class, through what it compares: keys and primary values
\* (an int subclass compares as its int, a str subclass as its text)
Range(s) == {s[i] : i \in DOMAIN s}

Primary(c, tbl) ==
    CASE c = "Query" -> {<<e.k, e.v>> : e \in Range(tbl)}
      [] c = "ProbabilisticRelevance" ->
            {<<q.k, {<<i.k, {<<d.k, d.v.val>> : d \in Range(i.v)}>> : i \in Range(q.v)}>> :
                q \in Range(tbl)}
      [] c = "Relevance" ->
            {<<q.k, {<<i.k, {<<d.k, d.v>> : d \in Range(i.v)}>> : i \in Range(q.v)}>> :
                q \in Range(tbl)}
      [] c = "Result" -> {<<e.k, {<<m.k, m.v>> : m \in Range(e.v)}>> : e \in Range(tbl)}
      [] c = "Run" -> {<<e.k, [i \in 1..Len(e.v) |-> e.v[i].id]>> : e \in Range(tbl)}

TableEq(c, a, b) == Primary(c, a) = Primary(c, b)

(***************************************************************************)
(* The inputs: files of at most MaxLines lines, and the keys and values of *)
(* the direct operations.                                                  *)
(***************************************************************************)
QueryIds == {L(<<"1", "0">>), L(<<"2">>)}

QueryLines ==
    { L(<<"1", "0", ":", "a">>),
      L(<<"2", ":", "b", " ", ":", "c", " ">>),
      L(<<"2", ":", "a">>),
      L(<<"1", "0", ":", " ", "a">>),
      L(<<"a", "b">>) }

PRLines ==
    { L(<<"1", "0", " ", "1", " ", "1">>),
      L(<<"2", " ", "1", " ", "0", " ", "m", " ", "0", ".", "5", "0">>),
      L(<<"2", " ", " ", "2", " ", "3", " ", "m">>),
      L(<<"2", " ", "1">>),
      L(<<"2">>),
      L(<<"2", " ", "1", " ", "1", " ", "m", " ", ".", "5", " ", "x">>) }

RelLines ==
    { L(<<"1", "0", " ", "0", " ", "1", " ", "1">>),
      L(<<"2", " ", "1", " ", "2", " ", "0">>),
      L(<<"2", " ", "0", " ", "1", " ", "2">>),
      L(<<" ", "2", " ", "0", " ", " ", "1", " ", "3", " ">>),
      L(<<"2", " ", "0", " ", "1">>),
      L(<<"2", " ", "0", " ", "1", " ", "1", " ", "x">>) }

ResultHeader == L(<<"r", "u", "n", "i", "d", ",", "t", "o", "p", "i", "c", ",", "m">>)

ResultLines ==
    { L(<<"A", ",", "1", "0", ",", "0", ".", "5">>),
      L(<<"B", ",", "1", "0", ",", "n", "a", "n">>),
      L(<<"A", ",", "2", ",", "0", ".", "1", "2", "3", "4", "5", "6", "7">>),
      L(<<"B", ",", "2", ",", "1", ".", "2", "5">>),
      L(<<"A", ",", "2", ",", "-", "n", "a", "n">>) }

RunLines ==
    { L(<<"2", " ", "Q", "0", " ", "1", " ", "1", " ", "2", ".", "5", " ", "r">>),
      L(<<"2", " ", "Q", "0", " ", "2", " ", "2", " ", "2", ".", "5", "0", " ", "r">>),
      L(<<"2", " ", "Q", "0", " ", "3", " ", "9", " ", "9", ".", "1", " ", "r">>),
      L(<<"1", "0", " ", "Q", "0", " ", "1", " ", "1", " ", "1", " ", "r">>),
      L(<<"2", " ", "Q", "0", " ", "1", " ", "1", " ", "2", ".", "5">>),
      L(<<"2", " ", "Q", "0", " ", "1", " ", "4", " ", "2", ".", "5", " ", "r", " ", "x">>) }

LinesOf(c) ==
    CASE c = "Query" -> QueryLines
      [] c = "ProbabilisticRelevance" -> PRLines
      [] c = "Relevance" -> RelLines
      [] c = "Result" -> ResultLines
      [] c = "Run" -> RunLines

\* the text of a file: the header line (Result) and the lines, each ended
RECURSIVE FileText(_)
FileText(lines) ==
    IF lines = <<>> THEN <<>> ELSE Head(lines) \o <<LF>> \o FileText(Tail(lines))

InputFiles(c) ==
    { FileText((IF c = "Result" THEN <<ResultHeader>> ELSE <<>>) \o ls) :
        ls \in UNION {[1..n -> LinesOf(c)] : n \in 0..MaxLines} }

DocIds == {L(<<"1">>), L(<<"2">>)}
IntentIds == {L(<<"0">>), L(<<"1">>)}
MeasureName == L(<<"m">>)

\* the values assigned directly
PRValues ==
    { [bare |-> TRUE, val |-> 1],
      [bare |-> FALSE, val |-> 2, method_id |-> L(<<"m">>), probability |-> Flt(Pow10(FracDigits) \div 4)] }

ResultKeys ==
    { [k |-> L(<<"1", "0">>), key |-> BareKey],
      [k |-> L(<<"2">>), key |-> BareKey],
      [k |-> L(<<"2">>), key |-> QueryIdKey(L(<<"B">>))] }

ResultRecords ==
    { <<[k |-> MeasureName, v |-> Num(Pow10(FracDigits) \div 2)]>>,
      <<[k |-> MeasureName, v |-> None]>> }

RunDocs ==
    { [bare |-> TRUE, id |-> L(<<"1">>)],
      [bare |-> TRUE, id |-> L(<<"2">>)],
      DocumentId(L(<<"3">>), L(<<"9", ".", "5">>), L(<<"Q", "1">>), L(<<"r">>)) }

(***************************************************************************)
(* The state: one instance of one class, the file it read, the file it     *)
(* wrote, and a second, fresh instance that reads the written file.        *)
(***************************************************************************)
VARIABLES
    cls,    \* the class of the instance
    self,   \* the instance: the dict
    err,    \* the exception the last operation raised, "none" when it returned
    ret,    \* what the last lookup returned
    inp,    \* the file read() was given
    out,    \* the file write() wrote
    dest,   \* cls().read(out): the second instance
    stage,  \* "build", then "written", then "reread"
    ops,    \* the operations done on the instance so far
    last    \* the last operation: its name, its key, whether the key was absent

vars == <<cls, self, err, ret, inp, out, dest, stage, ops, last>>

Op(name, key, absent) == [op |-> name, key |-> key, absent |-> absent]

Init ==
    /\ cls \in Classes
    /\ self = <<>>
    /\ err = "none"
    /\ ret = <<>>
    /\ inp = NoFile
    /\ out = NoFile
    /\ dest = <<>>
    /\ stage = "build"
    /\ ops = <<>>
    /\ last = Op("init", <<>>, FALSE)

\* an exception ends the run; the instance takes at most MaxOps operations
\* before it is written
CanBuild == stage = "build" /\ err = "none" /\ Len(ops) < MaxOps

\* cls().read(path): a fresh instance reads one of the input files
Read ==
    /\ CanBuild
    /\ ops = <<>>
    /\ \E f \in InputFiles(cls) :
          /\ self' = ClsRead(cls, self, f).tbl
          /\ err' = ClsRead(cls, self, f).err
          /\ inp' = File(f)
    /\ ops' = Append(ops, "read")
    /\ last' = Op("read", <<>>, FALSE)
    /\ UNCHANGED <<cls, ret, out, dest, stage>>

\* mutant: __missing__ returns the fresh container without storing it
GetItemNoStore ==
    /\ CanBuild
    /\ \E k \in QueryIds :
          /\ last' = Op("getitem", k, ~DHas(self, k))
          /\ IF DHas(self, k)
             THEN /\ ret' = DGet(self, k)
                  /\ UNCHANGED <<self, err>>
             ELSE IF cls = "Query"
             THEN /\ err' = "KeyError"
                  /\ UNCHANGED <<self, ret>>
             ELSE /\ ret' = <<>>
                  /\ UNCHANGED <<self, err>>
    /\ ops' = Append(ops, "getitem")
    /\ UNCHANGED <<cls, inp, out, dest, stage>>

\* self[key]: dict.__getitem__, and __missing__ where the class defines it
\* (Query does not: KeyError)
GetItem ==
    /\ CanBuild
    /\ \E k \in QueryIds :
          /\ last' = Op("getitem", k, ~DHas(self, k))
          /\ IF DHas(self, k)
             THEN /\ ret' = DGet(self, k)
                  /\ UNCHANGED <<self, err>>
             ELSE IF cls = "Query"
             THEN /\ err' = "KeyError"
                  /\ UNCHANGED <<self, ret>>
             ELSE /\ self' = IF cls = "Result"
                             THEN ResultVivify(self, k, BareKey)
                             ELSE Vivify(self, k, <<>>)
                  /\ ret' = <<>>
                  /\ UNCHANGED err
    /\ ops' = Append(ops, "getitem")
    /\ UNCHANGED <<cls, inp, out, dest, stage>>

\* query[key] = text
QuerySetItem ==
    /\ CanBuild
    /\ cls = "Query"
    /\ \E k \in QueryIds :
          /\ self' = DPut(self, k, L(<<"b">>))
          /\ last' = Op("setitem", k, ~DHas(self, k))
    /\ ops' = Append(ops, "setitem")
    /\ UNCHANGED <<cls, err, ret, inp, out, dest, stage>>

\* prel[query_id]['0'][document_id] = value, a bare int or a relevance
PRSetItem ==
    /\ CanBuild
    /\ cls = "ProbabilisticRelevance"
    /\ \E q \in QueryIds, d \in DocIds, value \in PRValues :
          /\ self' = PutNested(self, q, Intent0, d, value)
          /\ last' = Op("setitem", q, ~DHas(self, q))
    /\ ops' = Append(ops, "setitem")
    /\ UNCHANGED <<cls, err, ret, inp, out, dest, stage>>

\* rel[query_id][intent_id][document_id] = 1
RelSetItem ==
    /\ CanBuild
    /\ cls = "Relevance"
    /\ \E q \in QueryIds, i \in IntentIds :
          /\ self' = PutNested(self, q, i, L(<<"1">>), 1)
          /\ last' = Op("setitem", q, ~DHas(self, q))
    /\ ops' = Append(ops, "setitem")
    /\ UNCHANGED <<cls, err, ret, inp, out, dest, stage>>

\* result[key] = record, key a bare str or a query_id: a key already present
\* keeps the key object it was stored with
ResultSetItem ==
    /\ CanBuild
    /\ cls = "Result"
    /\ \E e \in ResultKeys, rec \in ResultRecords :
          /\ self' = DPut(ResultVivify(self, e.k, e.key), e.k, rec)
          /\ last' = Op("setitem", e.k, ~DHas(self, e.k))
    /\ ops' = Append(ops, "setitem")
    /\ UNCHANGED <<cls, err, ret, inp, out, dest, stage>>

\* run[query_id].append(document), a bare str or a document_id
RunAppend ==
    /\ CanBuild
    /\ cls = "Run"
    /\ \E q \in QueryIds, doc \in RunDocs :
          /\ self' = DPut(Vivify(self, q, <<>>), q, Append(DGet(Vivify(self, q, <<>>), q), doc))
          /\ last' = Op("append", q, ~DHas(self, q))
    /\ ops' = Append(ops, "append")
    /\ UNCHANGED <<cls, err, ret, inp, out, dest, stage>>

\* self.write(path)
Write ==
    /\ stage = "build"
    /\ err = "none"
    /\ self' = ClsWrite(cls, self).tbl
    /\ out' = ClsWrite(cls, self).file
    /\ err' = ClsWrite(cls, self).err
    /\ stage' = "written"
    /\ last' = Op("write", <<>>, FALSE)
    /\ UNCHANGED <<cls, ret, inp, dest, ops>>

\* destination = cls().read(path) of the written file
ReadBack ==
    /\ stage = "written"
    /\ err = "none"
    /\ out.exists
    /\ dest' = ClsRead(cls, <<>>, out.data).tbl
    /\ err' = ClsRead(cls, <<>>, out.data).err
    /\ stage' = "reread"
    /\ last' = Op("readback", <<>>, FALSE)
    /\ UNCHANGED <<cls, self, ret, inp, out, ops>>

Next ==
    \/ Read
    \/ GetItem
    \/ QuerySetItem
    \/ PRSetItem
    \/ RelSetItem
    \/ ResultSetItem
    \/ RunAppend
    \/ Write
    \/ ReadBack

Spec == Init /\ [][Next]_vars

(***************************************************************************)
(* What the properties below read off the files.                           *)
(***************************************************************************)
\* the instance was populated by one read() into the empty instance
FromRead == ops = <<"read">>

\* the lines of the written file, and the fields of its line i
OutLines == FileLines(out.data)
InLines == FileLines(inp.data)

Fields(c, line) ==
    CASE c = "Query" -> SplitFirst(line, Colon)
      [] c = "ProbabilisticRelevance" -> ReSplit(Strip(line), 4)
      [] c = "Relevance" -> ReSplit(Strip(line), 3)
      [] c = "Result" -> CsvRow(line)
      [] c = "Run" -> ReSplit(Strip(line), 5)

\* the sort key of a written line
KeyOf(c, line) ==
    CASE c = "Query" -> <<Fields(c, line)[1]>>
      [] c = "ProbabilisticRelevance" -> SubSeq(Fields(c, line), 1, 2)
      [] c = "Relevance" -> SubSeq(Fields(c, line), 1, 3)
      [] c = "Result" -> <<Fields(c, line)[2]>>
      [] c = "Run" -> <<Fields(c, line)[1]>>

\* tuples of texts in lexicographic order
RECURSIVE TupleLess(_, _)
TupleLess(a, b) ==
    IF b = <<>> THEN FALSE
    ELSE IF a = <<>> THEN TRUE
    ELSE IF Head(a) # Head(b) THEN LexLess(Head(a), Head(b))
    ELSE TupleLess(Tail(a), Tail(b))

\* the data lines of the written file (Result's first line is the header)
OutRecords == IF cls = "Result" THEN Tail(OutLines) ELSE OutLines

\* the fields of the written lines of query q, in file order
OutOfQuery(q) ==
    SelectSeq([i \in 1..Len(OutRecords) |-> Fields(cls, OutRecords[i])],
              LAMBDA l : l[1] = q)

ScoreOf(doc) == ParseFloat(doc.score).f.v

Count(seq, x) == Cardinality({i \in 1..Len(seq) : seq[i] = x})

\* n.0, the text of the float n
RankText(n) == Digits(n) \o <<46, 48>>

(***************************************************************************)
(* C1.  Round trip of Query, ProbabilisticRelevance, Relevance and Run: a  *)
(* table T read from a file into an empty instance, written, and read      *)
(* again into a fresh instance, gives a table equal to T (same keys, same  *)
(* nested keys, same primary values, same document sequences).            *)
(***************************************************************************)
LineClasses == {"Query", "ProbabilisticRelevance", "Relevance", "Run"}

C1_RoundTrip ==
    (stage = "reread" /\ FromRead /\ cls \in LineClasses)
        => (err = "none" /\ TableEq(cls, dest, self))

\* a Run of two documents of one query was read, written in another text
\* than the input's, and read again
C1_Witness ==
    /\ stage = "reread"
    /\ FromRead
    /\ cls = "Run"
    /\ out.data # inp.data
    /\ \E e \in Range(self) : Len(e.v) = 2 /\ e.v[1].id # e.v[2].id

(***************************************************************************)
(* C2 as claimed.  Round trip of Result for measure values of any number   *)
(* of decimal places: read, write, read again gives an equal table.        *)
(***************************************************************************)
C2_AnyPlaces ==
    (stage = "reread" /\ FromRead /\ cls = "Result")
        => (err = "none" /\ TableEq(cls, dest, self))

\* every number of the table has at most six decimal places
SixPlaces(tbl) ==
    \A e \in Range(tbl) : \A m \in Range(e.v) :
        m.v.none \/ m.v.v % Pow10(FracDigits - 6) = 0

\* the written row of every record gives -nan exactly for its None measures
NullsAsMinusNan ==
    \A e \in Range(self) :
        \E i \in 1..Len(OutRecords) :
            LET row == CsvRow(OutRecords[i])
            IN  /\ row[2] = e.k
                /\ \A j \in 1..Len(e.v) : (row[2 + j] = MinusNan) = e.v[j].v.none

(***************************************************************************)
(* C2 as amended.  Round trip of Result for measure values of at most six  *)
(* decimal places, or NaN: read, write, read again gives an equal table;   *)
(* a score read as NaN is stored as None, written as -nan and read back    *)
(* as None.                                                                *)
(***************************************************************************)
C2_RoundTripSixPlaces ==
    (stage = "reread" /\ FromRead /\ cls = "Result" /\ SixPlaces(self))
        => (err = "none" /\ TableEq(cls, dest, self) /\ NullsAsMinusNan)

\* a table with a None and with a number that is not an integer went round
C2_Witness ==
    /\ stage = "reread"
    /\ FromRead
    /\ cls = "Result"
    /\ SixPlaces(self)
    /\ \E e \in Range(self) : e.v[1].v.none
    /\ \E e \in Range(self) : ~e.v[1].v.none /\ e.v[1].v.v % Pow10(FracDigits) # 0

(***************************************************************************)
(* C3.  Run.read into an empty table stores, per query, one document per   *)
(* input line of the query, by descending score, documents of equal score  *)
(* by ascending document id text; the rank field of the lines plays no     *)
(* part.                                                                   *)
(***************************************************************************)
C3_ReadOrder ==
    (cls = "Run" /\ stage = "build" /\ FromRead /\ err = "none") =>
        LET fields == [i \in 1..Len(InLines) |-> Fields("Run", InLines[i])]
            DocOf(l) == DocumentId(l[3], l[5], l[2], l[6])
        IN  /\ {e.k : e \in Range(self)} = {l[1] : l \in Range(fields)}
            /\ \A e \in Range(self) :
                  LET mine == SelectSeq(fields, LAMBDA l : l[1] = e.k)
                      docs == [i \in 1..Len(mine) |-> DocOf(mine[i])]
                  IN  /\ Len(e.v) = Len(mine)
                      /\ \A d \in Range(docs) : Count(e.v, d) = Count(docs, d)
                      /\ \A i, j \in 1..Len(e.v) :
                            i < j =>
                               /\ ScoreOf(e.v[i]) >= ScoreOf(e.v[j])
                               /\ ScoreOf(e.v[i]) = ScoreOf(e.v[j])
                                     => LexLeq(e.v[i].id, e.v[j].id)

\* two documents of equal score were read in descending id order and are
\* stored in ascending id order
C3_Witness ==
    /\ cls = "Run"
    /\ stage = "build"
    /\ FromRead
    /\ err = "none"
    /\ Len(InLines) = 2
    /\ \E e \in Range(self) :
          /\ Len(e.v) = 2
          /\ ScoreOf(e.v[1]) = ScoreOf(e.v[2])
          /\ LexLess(e.v[1].id, e.v[2].id)
          /\ Fields("Run", InLines[1])[3] = e.v[2].id

(***************************************************************************)
(* C4.  Run.write, however the table was populated, writes per query one   *)
(* line per stored document in stored order, the i-th with rank i as a     *)
(* decimal (1.0, 2.0, ...), counted anew for every query.                  *)
(***************************************************************************)
C4_RankRegenerated ==
    (cls = "Run" /\ stage = "written") =>
        /\ err = "none"
        /\ out.exists
        /\ \A i \in 1..Len(OutRecords) : DHas(self, Fields("Run", OutRecords[i])[1])
        /\ \A e \in Range(self) :
              LET mine == OutOfQuery(e.k)
              IN  /\ Len(mine) = Len(e.v)
                  /\ \A i \in 1..Len(e.v) :
                        /\ mine[i][3] = e.v[i].id
                        /\ mine[i][4] = RankText(i)

\* a table of two queries was read and a document of a higher score
\* appended to one of them: the written ranks follow the stored order
C4_Witness ==
    /\ cls = "Run"
    /\ stage = "written"
    /\ ops = <<"read", "append">>
    /\ Len(self) = 2
    /\ \E e \in Range(self) :
          /\ Len(e.v) = 2
          /\ ~e.v[1].bare
          /\ ~e.v[2].bare
          /\ ScoreOf(e.v[1]) < ScoreOf(e.v[2])
          /\ OutOfQuery(e.k)[1][4] = RankText(1)
          /\ OutOfQuery(e.k)[2][4] = RankText(2)

(***************************************************************************)
(* C5.  The records write() emits are in strictly ascending lexicographic  *)
(* order of their key, whatever the insertion order: id (Query), (query,   *)
(* document) (ProbabilisticRelevance), (query, intent, document)           *)
(* (Relevance), the record key (Result); for Run the query ids ascend and  *)
(* the lines of one query are consecutive.                                 *)
(***************************************************************************)
C5_WriteSorted ==
    out.exists =>
        \A i \in 1..(Len(OutRecords) - 1) :
            LET a == KeyOf(cls, OutRecords[i])
                b == KeyOf(cls, OutRecords[i + 1])
            IN  IF cls = "Run" THEN a = b \/ TupleLess(a, b) ELSE TupleLess(a, b)

\* a table whose keys were inserted in descending order was written
C5_Witness ==
    /\ out.exists
    /\ stage = "written"
    /\ Len(self) = 2
    /\ LexLess(self[2].k, self[1].k)
    /\ Len(OutRecords) >= 2
    /\ KeyOf(cls, OutRecords[1])[1] = self[2].k

(***************************************************************************)
(* C6 as claimed.  Result.read groups rows by (topic, runid): every row    *)
(* has its own record, which carries the row's runid and the row's         *)
(* measure values, unless a later row has the same topic and runid.        *)
(***************************************************************************)
InRows == [i \in 1..(Len(InLines) - 1) |-> CsvRow(InLines[i + 1])]

\* the value Result.read stores for the text of a measure
MeasureOf(t) == IF ParseFloat(t).f.nan THEN None ELSE Num(ParseFloat(t).f.v)

C6_GroupedByTopicAndRun ==
    (cls = "Result" /\ stage = "build" /\ FromRead /\ err = "none") =>
        \A i \in 1..Len(InRows) :
            (\A j \in (i + 1)..Len(InRows) :
                 ~(InRows[j][1] = InRows[i][1] /\ InRows[j][2] = InRows[i][2]))
            => \E e \in Range(self) :
                  /\ e.k = InRows[i][2]
                  /\ e.key = QueryIdKey(InRows[i][1])
                  /\ e.v = <<[k |-> MeasureName, v |-> MeasureOf(InRows[i][3])]>>

(***************************************************************************)
(* C6 as amended.  Result.read groups rows by topic alone: the table has   *)
(* one record per topic of the input; the record's key carries the runid   *)
(* of the first row of that topic and its measures hold the values of the  *)
(* last row of that topic.                                                 *)
(***************************************************************************)
C6_GroupedByTopic ==
    (cls = "Result" /\ stage = "build" /\ FromRead /\ err = "none") =>
        /\ {e.k : e \in Range(self)} = {r[2] : r \in Range(InRows)}
        /\ Len(self) = Cardinality({r[2] : r \in Range(InRows)})
        /\ \A e \in Range(self) :
              LET mine == SelectSeq(InRows, LAMBDA r : r[2] = e.k)
              IN  /\ e.key = QueryIdKey(mine[1][1])
                  /\ e.v = <<[k |-> MeasureName, v |-> MeasureOf(mine[Len(mine)][3])]>>

\* two rows of one topic and two runids were read
C6_Witness ==
    /\ cls = "Result"
    /\ stage = "build"
    /\ FromRead
    /\ err = "none"
    /\ Len(InRows) = 2
    /\ InRows[1][2] = InRows[2][2]
    /\ InRows[1][1] # InRows[2][1]
    /\ InRows[1][3] # InRows[2][3]
    /\ Len(self) = 1

(***************************************************************************)
(* C7.  Result.write on a table of zero records fails (IndexError, the     *)
(* spec's EmptyTableError): no file is written, so no header and no row,   *)
(* and the table is still empty.                                           *)
(***************************************************************************)
C7_EmptyWriteFails ==
    [][(cls = "Result" /\ stage = "build" /\ stage' = "written" /\ self = <<>>)
          => (err' = "IndexError" /\ ~out'.exists /\ self' = <<>>)]_vars

\* an empty Result, read from a file of the header alone, was written
C7_Witness ==
    /\ cls = "Result"
    /\ stage = "written"
    /\ self = <<>>
    /\ inp.exists
    /\ inp.data = FileText(<<ResultHeader>>)
    /\ err = "IndexError"

SameMeasures(tbl) == \A e \in Range(tbl) : DKeys(e.v) = DKeys(tbl[1].v)

C9_DefaultsWritten ==
    (stage = "written" /\ cls \in {"ProbabilisticRelevance", "Result", "Run"}
        /\ (cls = "Result" => self # <<>> /\ SameMeasures(self))) =>
        /\ err = "none"
        /\ out.exists
        /\ cls = "ProbabilisticRelevance" =>
              \A q \in Range(self) : \A d \in Range(DGet(q.v, Intent0)) :
                  LET ls == SelectSeq(OutOfQuery(q.k), LAMBDA l : l[2] = d.k)
                  IN  /\ Len(ls) = 1
                      /\ ls[1][3] = StrInt(d.v.val)
                      /\ ls[1][4] = (IF d.v.bare THEN L(<<"-", "1">>) ELSE d.v.method_id)
                      /\ ls[1][5] = (IF d.v.bare THEN L(<<"n", "a", "n">>)
                                     ELSE ReprFloat(d.v.probability))
        /\ cls = "Run" =>
              \A e \in Range(self) : \A i \in 1..Len(e.v) :
                  LET l == OutOfQuery(e.k)[i]
                  IN  /\ l[2] = (IF e.v[i].bare THEN L(<<"Q", "0">>) ELSE e.v[i].key)
                      /\ l[5] = (IF e.v[i].bare THEN <<45>> \o RankText(i) ELSE e.v[i].score)
                      /\ l[6] = (IF e.v[i].bare THEN L(<<"_">>) ELSE e.v[i].run_id)
        /\ cls = "Result" =>
              \A e \in Range(self) :
                  \E i \in 1..Len(OutRecords) :
                      /\ CsvRow(OutRecords[i])[2] = e.k
                      /\ CsvRow(OutRecords[i])[1]
                            = (IF e.key.bare THEN L(<<"_">>) ELSE e.key.run_id)

\* a Run query holding a wrapped document and then a bare one was written
C9_Witness ==
    /\ stage = "written"
    /\ cls = "Run"
    /\ \E e \in Range(self) :
          /\ Len(e.v) = 2
          /\ ~e.v[1].bare
          /\ e.v[2].bare
          /\ OutOfQuery(e.k)[2][5] = L(<<"-", "2", ".", "0">>)

(***************************************************************************)
(* C10.  read() of a file with a line that does not split into the         *)
(* expected fields (Query: no ':'; ProbabilisticRelevance: fewer than 3    *)
(* fields; Relevance: not 4 fields; Run: not 6 fields) fails, and stores   *)
(* no entry of that line or of a later one.                                *)
(***************************************************************************)
Malformed(c, line) ==
    CASE c = "Query" -> Len(Fields(c, line)) # 2
      [] c = "ProbabilisticRelevance" -> Len(Fields(c, line)) < 3
      [] c = "Relevance" -> Len(Fields(c, line)) # 4
      [] c = "Run" -> Len(Fields(c, line)) # 6

\* the text of the lines before the first malformed one
GoodPrefix(c, lines) ==
    LET bad == CHOOSE i \in 1..Len(lines) :
                  /\ Malformed(c, lines[i])
                  /\ \A j \in 1..(i - 1) : ~Malformed(c, lines[j])
    IN  Join(SubSeq(lines, 1, bad - 1), <<>>)

C10_MalformedLineFails ==
    (cls \in LineClasses /\ stage = "build" /\ FromRead
        /\ \E i \in 1..Len(InLines) : Malformed(cls, InLines[i])) =>
        /\ err = "ValueError"
        /\ \/ self = <<>>
           \/ self = ClsRead(cls, <<>>, GoodPrefix(cls, InLines)).tbl

=============================================================================
